---- MODULE Spec2Model ----
(***************************************************************************)
(* Model of sonya's queue engine (src/sonya/src/queue/map.rs): the sled    *)
(* store (one tree per queue, sequence counters in the root tree), the     *)
(* in-memory broadcast hubs and the replay + live subscriptions.           *)
(*                                                                         *)
(* Strings are sequences of byte values, so that prefix scans, range scans *)
(* and the counter key concatenation behave as they do on sled's byte      *)
(* ordered keys.  A u64 is modelled at a width of SeqBytes bytes (TLC's    *)
(* integers are 32 bit wide); to_be_bytes / from_be_bytes convert between  *)
(* the number and its big-endian bytes at that width.                      *)
(*                                                                         *)
(* Option<NonZeroU64> is a number with 0 for None; Option<usize> is a      *)
(* number with -1 for None.                                                *)
(***************************************************************************)
EXTENDS Integers, Sequences, FiniteSets, TLC

\* ---------------------------------------------------------------- bounds
MaxOps == 3          \* handler calls in one behaviour of Spec
MaxSubs == 2         \* subscriptions kept in one behaviour
MaxM == 2            \* largest configured max_key_updates
SeqBytes == 2        \* modelled width of a u64, in bytes
MaxRounds == 1       \* publishes of one concurrent producer

\* ------------------------------------------------------- program constants
ChannelCapacity == 1024
ByteBase == 256
U64_MAX == (ByteBase ^ SeqBytes) - 1

NoneSeq == 0         \* Option<SequenceId>::None
NoneUsize == -1      \* Option<usize>::None

QueueNames == {<<113>>}                 \* "q"
Keys == {<<97>>, <<97, 98>>}            \* "a", "ab"
IdPrefix == <<105, 100, 95>>            \* "id_"
ReservedNames == {IdPrefix \o <<113>>}  \* "id_q"
Procs == {"p1", "p2"}
Subscribers == {"s1"}
Tasks == Procs \cup Subscribers

CallerSequences == {NoneSeq, 2, U64_MAX}
RequestSequences ==
    {[kind |-> "None", s |-> 0], [kind |-> "First", s |-> 0],
     [kind |-> "Last", s |-> 0], [kind |-> "Id", s |-> 1],
     [kind |-> "Id", s |-> 3]}
MaxKeyUpdatesOptions == {NoneUsize} \cup (0..MaxM)

VARIABLES
    max_key_updates,   \* Queue.max_key_updates
    trees,             \* sled trees: queue name -> (storage key -> bytes)
    counters,          \* root tree: counter key -> be bytes
    queue_meta,        \* Queue.queue_meta: queue name -> QueueBroadcast
    next_chan,         \* identity given to the next channel(1024)
    subs,              \* the subscriptions handed out, in order
    ret,               \* the last handler call and what it returned
    ops,               \* handler calls made so far
    sent,              \* publishes made so far (names the payloads)
    pc,                \* concurrent producers: position in send_to_queue
    local,             \* concurrent producers: locals of send_to_queue
    closed             \* history: the names closed and not created since

vars == <<max_key_updates, trees, counters, queue_meta, next_chan, subs,
          ret, ops, sent, pc, local, closed>>

\* ------------------------------------------------------------- utilities
EmptyFn == [x \in {} |-> 0]

Put(f, k, v) == [x \in (DOMAIN f) \cup {k} |-> IF x = k THEN v ELSE f[x]]

RemoveAll(f, ks) == [x \in (DOMAIN f) \ ks |-> f[x]]

Min(a, b) == IF a < b THEN a ELSE b

Max(a, b) == IF a < b THEN b ELSE a

Range(s) == {s[i] : i \in DOMAIN s}

Reverse(s) == [i \in 1..Len(s) |-> s[Len(s) + 1 - i]]

Skip(s, n) == IF n >= Len(s) THEN <<>> ELSE SubSeq(s, n + 1, Len(s))

Take(s, n) == SubSeq(s, 1, Min(n, Len(s)))

\* byte-wise lexicographic order of sled keys
BytesLess(a, b) ==
    LET n == Min(Len(a), Len(b)) IN
        \/ \E i \in 1..n : a[i] < b[i] /\ \A j \in 1..(i - 1) : a[j] = b[j]
        \/ Len(a) < Len(b) /\ \A j \in 1..n : a[j] = b[j]

StartsWith(k, prefix) ==
    Len(k) >= Len(prefix) /\ SubSeq(k, 1, Len(prefix)) = prefix

RECURSIVE SortKeys(_)
SortKeys(S) ==
    IF S = {} THEN <<>>
    ELSE LET m == CHOOSE x \in S : \A y \in S \ {x} : BytesLess(x, y)
         IN <<m>> \o SortKeys(S \ {m})

RECURSIVE to_be_bytes_n(_, _)
to_be_bytes_n(s, n) ==
    IF n = 0 THEN <<>>
    ELSE Append(to_be_bytes_n(s \div ByteBase, n - 1), s % ByteBase)

to_be_bytes(s) == to_be_bytes_n(s, SeqBytes)

RECURSIVE from_be_bytes(_)
from_be_bytes(b) ==
    IF b = <<>> THEN 0
    ELSE from_be_bytes(SubSeq(b, 1, Len(b) - 1)) * ByteBase + b[Len(b)]

\* ------------------------------------------------------------ the events
Event(id, sequence, body) ==
    [id |-> id, sequence |-> sequence, body |-> body, last |-> FALSE]

to_vec(value) == <<value.id, value.sequence, value.body, value.last>>

from_slice(v) == [id |-> v[1], sequence |-> v[2], body |-> v[3], last |-> v[4]]

get_id(id, sequence) == id \o to_be_bytes(sequence)

\* -------------------------------------------------------- the sled store
EmptyTree == EmptyFn

tree_names == DOMAIN trees

open_tree(ts, name) == IF name \in DOMAIN ts THEN ts ELSE Put(ts, name, EmptyTree)

drop_tree(ts, name) == [n \in (DOMAIN ts) \ {name} |-> ts[n]]

tree_insert(tree, key, bytes) == Put(tree, key, bytes)

\* keys of the tree that start with the prefix, in key order
scan_prefix(tree, prefix) ==
    SortKeys({k \in DOMAIN tree : StartsWith(k, prefix)})

\* keys of the tree in the half-open range lo..hi, in key order
tree_range(tree, lo, hi) ==
    SortKeys({k \in DOMAIN tree : ~BytesLess(k, lo) /\ BytesLess(k, hi)})

tree_iter(tree) == SortKeys(DOMAIN tree)

apply_batch(tree, batch) == RemoveAll(tree, batch)

check_tree_exists_always(queue_name) == TRUE

check_tree_exists(queue_name) == queue_name \in tree_names

\* ------------------------------------------------- the sequence allocator
counter_key(queue_name, id) == IdPrefix \o queue_name \o id

checked_add_same(n) == n

\* id.checked_add(1), with -1 for None
checked_add(n) == IF n = U64_MAX THEN -1 ELSE n + 1

\* the closure handed to update_and_fetch: the new value of the counter
next_counter(cs, key) ==
    LET v == IF key \in DOMAIN cs /\ Len(cs[key]) = SeqBytes
             THEN from_be_bytes(cs[key]) ELSE -1
        id == IF v = -1 THEN -1 ELSE checked_add(v)
    IN IF id = -1 THEN to_be_bytes(1) ELSE to_be_bytes(id)

update_and_fetch(cs, key) == Put(cs, key, next_counter(cs, key))

\* generate_next_id: the counters after the call and the id it returns
\* (0 when the call fails with ZeroSequence)
generate_next_id(cs, queue_name, id) ==
    LET key == counter_key(queue_name, id)
        cs1 == update_and_fetch(cs, key)
    IN [counters |-> cs1, id |-> from_be_bytes(cs1[key])]

\* ----------------------------------------------------- the broadcast hubs
get_queue_broadcast(queue_name, qm, nc) ==
    IF queue_name \in DOMAIN qm
    THEN [meta |-> qm, next |-> nc]
    ELSE [meta |-> Put(qm, queue_name, [sender |-> nc, keys |-> EmptyFn]),
          next |-> nc + 1]

get_key_broadcast_fresh(id, keys, nc) ==
    [keys |-> Put(keys, id, [sender |-> nc]), next |-> nc + 1]

get_key_broadcast(id, keys, nc) ==
    IF id \in DOMAIN keys
    THEN [keys |-> keys, next |-> nc]
    ELSE [keys |-> Put(keys, id, [sender |-> nc]), next |-> nc + 1]

\* a receiver's buffer after one more message: the ring drops the oldest
push(buf, value) ==
    IF Len(buf) >= ChannelCapacity THEN Append(Tail(buf), value)
    ELSE Append(buf, value)

send_none(ss, chan, value) == ss

\* Sender::send: every receiver subscribed to the channel gets the value
send(ss, chan, value) ==
    [i \in DOMAIN ss |->
        IF ss[i].chan = chan
        THEN [ss[i] EXCEPT !.live = push(@, value),
                           !.lagged = @ \/ Len(ss[i].live) >= ChannelCapacity]
        ELSE ss[i]]

\* history: a delete_queue / close_queue tore down the hub entry a subscription
\* was made on
record_delete(ss, queue_name, id) ==
    [i \in DOMAIN ss |->
        IF ss[i].queue = queue_name /\ ss[i].scope = "key" /\ ss[i].id = id
        THEN [ss[i] EXCEPT !.torn_down = TRUE] ELSE ss[i]]

record_close(ss, queue_name) ==
    [i \in DOMAIN ss |->
        IF ss[i].queue = queue_name
        THEN [ss[i] EXCEPT !.torn_down = TRUE] ELSE ss[i]]

\* history: what was published in the scope of each subscription since it was
\* made
record_publish(ss, queue_name, value, supplied) ==
    [i \in DOMAIN ss |->
        IF ss[i].queue = queue_name
           /\ (ss[i].scope = "queue" \/ ss[i].id = value.id)
        THEN [ss[i] EXCEPT !.expect =
                 Append(@, [value |-> value, supplied |-> supplied])]
        ELSE ss[i]]

\* ------------------------------------------------------------ the replays
set_last(items) ==
    IF items = <<>> THEN items
    ELSE [items EXCEPT ![Len(items)] = [@ EXCEPT !.last = TRUE]]

extract_sequences(tree, sequence_id, id) ==
    CASE sequence_id.kind = "Id" ->
            tree_range(tree, get_id(id, sequence_id.s), get_id(id, U64_MAX))
      [] sequence_id.kind = "Last" -> Take(Reverse(scan_prefix(tree, id)), 1)
      [] sequence_id.kind = "First" -> scan_prefix(tree, id)

\* Some(vec) of get_prev_items (the request is not None)
get_prev_items(tree, id, sequence) ==
    LET ks == extract_sequences(tree, sequence, id)
    IN [i \in 1..Len(ks) |-> from_slice(tree[ks[i]])]

RECURSIVE first_by_key(_, _)
first_by_key(items, m) ==
    IF items = <<>> THEN m
    ELSE first_by_key(Tail(items),
                      IF Head(items).id \in DOMAIN m THEN m
                      ELSE Put(m, Head(items).id, Head(items)))

\* BTreeMap<String, T> of the Last replay: the later value of a key wins
RECURSIVE last_by_key(_, _)
last_by_key(items, m) ==
    IF items = <<>> THEN m
    ELSE last_by_key(Tail(items), Put(m, Head(items).id, Head(items)))

\* Some(vec) of get_prev_all_items (the request is not None)
get_prev_all_items(tree, sequence) ==
    LET ks == tree_iter(tree)
        i == [n \in 1..Len(ks) |-> from_slice(tree[ks[n]])]
        from_s(v) == v.sequence # NoneSeq /\ v.sequence >= sequence.s
    IN CASE sequence.kind = "Id" -> SelectSeq(i, from_s)
         [] sequence.kind = "Last" ->
                LET m == last_by_key(i, EmptyFn)
                    order == SortKeys(DOMAIN m)
                IN [n \in 1..Len(order) |-> m[order[n]]]
         [] sequence.kind = "First" -> i

\* ------------------------------------------------------------ the handlers
NoEvent == Event(<<>>, NoneSeq, 0)

NoRequest == [kind |-> "None", s |-> 0]

\* the last call: its arguments (value is the event as the caller passed it)
\* and its result; error is the QueueError of an Err result, "None" for Ok (no
\* handler constructs a QueueError of its own but ZeroSequence, and the store
\* calls of the sequential handlers succeed)
Returned(op, q, id, value, request, accepted, sequence, stream, count, items) ==
    [op |-> op, queue |-> q, id |-> id, value |-> value, request |-> request,
     accepted |-> accepted, sequence |-> sequence, stream |-> stream,
     preloaded_count |-> count, prev_items |-> items, error |-> "None"]

Subscription(queue_name, scope, id, chan, prev_items, preloaded_count) ==
    [queue |-> queue_name, scope |-> scope, id |-> id, chan |-> chan,
     prev_items |-> prev_items, preloaded_count |-> preloaded_count,
     live |-> <<>>, lagged |-> FALSE, expect |-> <<>>, torn_down |-> FALSE,
     iter |-> 0, recv |-> 0, yielded |-> <<>>, ended |-> FALSE]

sequence_always_allocated(cs, queue_name, value) ==
    generate_next_id(cs, queue_name, value.id)

\* match value.get_sequence(): the counters after it and the sequence chosen
sequence_of(cs, queue_name, value) ==
    IF value.sequence = NoneSeq
    THEN generate_next_id(cs, queue_name, value.id)
    ELSE [counters |-> cs, id |-> value.sequence]

persists_never(m) == FALSE

\* !matches!(self.max_key_updates, Some(0))
persists(m) == m # 0

trim_skip_more(m) == m + 1

\* .skip(m - 1)
trim_skip(m) == m - 1

\* the tree after the insert and the retention trim of send_to_queue
persist(tree, value, sequence) ==
    LET t1 == tree_insert(tree, get_id(value.id, sequence), to_vec(value))
    IN IF max_key_updates # NoneUsize
       THEN LET batch == Range(Skip(Reverse(scan_prefix(t1, value.id)),
                                    trim_skip(max_key_updates)))
            IN apply_batch(t1, batch)
       ELSE t1

create_queue(queue_name) ==
    /\ ops < MaxOps
    /\ trees' = open_tree(trees, queue_name)
    /\ ret' = Returned("create_queue", queue_name, <<>>, NoEvent, NoRequest,
                       TRUE, NoneSeq, FALSE, NoneUsize, <<>>)
    /\ ops' = ops + 1
    /\ closed' = closed \ {queue_name}
    /\ UNCHANGED <<max_key_updates, counters, queue_meta, next_chan, subs,
                   sent, pc, local>>

delete_queue(queue_name, id) ==
    /\ ops < MaxOps
    /\ LET q == get_queue_broadcast(queue_name, queue_meta, next_chan)
           keys1 == [k \in (DOMAIN q.meta[queue_name].keys) \ {id} |->
                        q.meta[queue_name].keys[k]]
           ts1 == open_tree(trees, queue_name)
           batch == Range(scan_prefix(ts1[queue_name], id))
       IN /\ queue_meta' = [q.meta EXCEPT ![queue_name].keys = keys1]
          /\ next_chan' = q.next
          /\ trees' = [ts1 EXCEPT ![queue_name] = apply_batch(@, batch)]
    /\ ret' = Returned("delete_queue", queue_name, id, NoEvent, NoRequest,
                       TRUE, NoneSeq, FALSE, NoneUsize, <<>>)
    /\ subs' = record_delete(subs, queue_name, id)
    /\ ops' = ops + 1
    /\ UNCHANGED <<max_key_updates, closed, counters, sent, pc, local>>

subscribe_queue_by_id(queue_name, id, sequence) ==
    /\ ops < MaxOps
    /\ Len(subs) < MaxSubs
    /\ IF ~check_tree_exists(queue_name)
       THEN /\ ret' = Returned("subscribe_queue_by_id", queue_name, id,
                               NoEvent, sequence, FALSE, NoneSeq, FALSE,
                               NoneUsize, <<>>)
            /\ UNCHANGED <<trees, queue_meta, next_chan, subs>>
       ELSE LET ts1 == open_tree(trees, queue_name)
                prev_items ==
                    IF sequence.kind = "None" THEN <<>>
                    ELSE set_last(get_prev_items(ts1[queue_name], id, sequence))
                prev_len == IF sequence.kind = "None" THEN NoneUsize
                            ELSE Len(prev_items)
                q == get_queue_broadcast(queue_name, queue_meta, next_chan)
                k == get_key_broadcast(id, q.meta[queue_name].keys, q.next)
                recv == k.keys[id].sender
            IN /\ trees' = ts1
               /\ queue_meta' = [q.meta EXCEPT ![queue_name].keys = k.keys]
               /\ next_chan' = k.next
               /\ subs' = Append(subs, Subscription(queue_name, "key", id, recv,
                                                    prev_items, prev_len))
               /\ ret' = Returned("subscribe_queue_by_id", queue_name, id,
                                  NoEvent, sequence, TRUE, NoneSeq, TRUE,
                                  prev_len, prev_items)
    /\ ops' = ops + 1
    /\ UNCHANGED <<max_key_updates, closed, counters, sent, pc, local>>

subscribe_queue(queue_name, sequence) ==
    /\ ops < MaxOps
    /\ Len(subs) < MaxSubs
    /\ IF ~check_tree_exists(queue_name)
       THEN /\ ret' = Returned("subscribe_queue", queue_name, <<>>, NoEvent,
                               sequence, FALSE, NoneSeq, FALSE, NoneUsize, <<>>)
            /\ UNCHANGED <<trees, queue_meta, next_chan, subs>>
       ELSE LET ts1 == open_tree(trees, queue_name)
                prev_items ==
                    IF sequence.kind = "None" THEN <<>>
                    ELSE set_last(get_prev_all_items(ts1[queue_name], sequence))
                prev_len == IF sequence.kind = "None" THEN NoneUsize
                            ELSE Len(prev_items)
                q == get_queue_broadcast(queue_name, queue_meta, next_chan)
                recv == q.meta[queue_name].sender
            IN /\ trees' = ts1
               /\ queue_meta' = q.meta
               /\ next_chan' = q.next
               /\ subs' = Append(subs, Subscription(queue_name, "queue", <<>>,
                                                    recv, prev_items, prev_len))
               /\ ret' = Returned("subscribe_queue", queue_name, <<>>, NoEvent,
                                  sequence, TRUE, NoneSeq, TRUE, prev_len,
                                  prev_items)
    /\ ops' = ops + 1
    /\ UNCHANGED <<max_key_updates, closed, counters, sent, pc, local>>

send_to_queue(queue_name, in_value) ==
    /\ ops < MaxOps
    /\ IF ~check_tree_exists(queue_name)
       THEN /\ ret' = Returned("send_to_queue", queue_name, in_value.id,
                               in_value, NoRequest, FALSE, NoneSeq, FALSE,
                               NoneUsize, <<>>)
            /\ UNCHANGED <<trees, counters, queue_meta, next_chan, subs>>
       ELSE LET id == in_value.id
                g == sequence_of(counters, queue_name, in_value)
                sequence == g.id
                value == [in_value EXCEPT !.sequence = sequence]
                ts1 == IF persists(max_key_updates)
                       THEN LET ts0 == open_tree(trees, queue_name)
                            IN [ts0 EXCEPT ![queue_name] =
                                               persist(@, value, sequence)]
                       ELSE trees
                q == get_queue_broadcast(queue_name, queue_meta, next_chan)
                ss1 == send(subs, q.meta[queue_name].sender, value)
                k == get_key_broadcast(id, q.meta[queue_name].keys, q.next)
                ss2 == send(ss1, k.keys[id].sender, value)
            IN /\ counters' = g.counters
               /\ trees' = ts1
               /\ queue_meta' = [q.meta EXCEPT ![queue_name].keys = k.keys]
               /\ next_chan' = k.next
               /\ subs' = record_publish(ss2, queue_name, value,
                                       in_value.sequence # NoneSeq)
               /\ ret' = Returned("send_to_queue", queue_name, id, in_value,
                                  NoRequest, TRUE, sequence, FALSE, NoneUsize,
                                  <<>>)
    /\ ops' = ops + 1
    /\ sent' = sent + 1
    /\ UNCHANGED <<max_key_updates, closed, pc, local>>

close_queue(queue_name) ==
    /\ ops < MaxOps
    /\ queue_meta' = [n \in (DOMAIN queue_meta) \ {queue_name} |->
                         queue_meta[n]]
    /\ trees' = drop_tree(trees, queue_name)
    /\ ret' = Returned("close_queue", queue_name, <<>>, NoEvent, NoRequest,
                       queue_name \in tree_names, NoneSeq, FALSE, NoneUsize,
                       <<>>)
    /\ subs' = record_close(subs, queue_name)
    /\ ops' = ops + 1
    /\ closed' = closed \cup {queue_name}
    /\ UNCHANGED <<max_key_updates, counters, next_chan, sent, pc, local>>

\* the locals of a producer that is in no call; done lists what its calls returned
IdleLocal(done) ==
    [queue |-> <<>>, value |-> NoEvent, supplied |-> FALSE, sequence |-> NoneSeq,
     batch |-> {}, found |-> FALSE, qref |-> FALSE, kref |-> FALSE,
     qchan |-> 0, kchan |-> 0, inserted |-> FALSE, sends |-> 0,
     scope |-> "none", request |-> NoRequest, prev_items |-> <<>>,
     prev_len |-> NoneUsize, before |-> {}, sub |-> 0, done |-> done]

\* Queue::new: the store is empty but for the trees of config.default
Init ==
    /\ max_key_updates \in MaxKeyUpdatesOptions
    /\ \E default \in SUBSET QueueNames :
          trees = [n \in default |-> EmptyTree]
    /\ counters = EmptyFn
    /\ queue_meta = EmptyFn
    /\ next_chan = 1
    /\ subs = <<>>
    /\ ret = Returned("new", <<>>, <<>>, NoEvent, NoRequest, TRUE, NoneSeq,
                      FALSE, NoneUsize, <<>>)
    /\ ops = 0
    /\ sent = 0
    /\ closed = {}
    /\ pc = [p \in Tasks |-> "idle"]
    /\ local = [p \in Tasks |-> IdleLocal(<<>>)]

Next ==
    \/ \E n \in QueueNames \cup ReservedNames : create_queue(n)
    \/ \E n \in QueueNames, id \in Keys : delete_queue(n, id)
    \/ \E n \in QueueNames, id \in Keys, r \in RequestSequences :
          subscribe_queue_by_id(n, id, r)
    \/ \E n \in QueueNames, r \in RequestSequences : subscribe_queue(n, r)
    \/ \E n \in QueueNames, id \in Keys, s \in CallerSequences :
          send_to_queue(n, Event(id, s, sent + 1))
    \/ \E n \in ReservedNames, id \in Keys :
          send_to_queue(n, Event(id, NoneSeq, sent + 1))
    \/ \E n \in QueueNames : close_queue(n)

Spec == Init /\ [][Next]_vars

\* ------------------------------------------------- the subscription stream
\* the channels whose Sender is still held by a hub entry
hub_channels ==
    {queue_meta[n].sender : n \in DOMAIN queue_meta}
    \cup UNION {{queue_meta[n].keys[k].sender : k \in DOMAIN queue_meta[n].keys} :
                 n \in DOMAIN queue_meta}

draining_never(s) == FALSE

\* prepare_stream is still in the loop over prev_items
draining(s) == s.iter < Len(s.prev_items)

\* one poll of the stream of prepare_stream that makes progress: it yields the
\* next preloaded event, else the next message of the receiver, and ends when
\* recv() fails (the receiver lagged, or is drained with its Sender gone)
poll(i) ==
    /\ i \in DOMAIN subs
    /\ ~subs[i].ended
    /\ LET s == subs[i] IN
          IF draining(s)
          THEN subs' = [subs EXCEPT ![i].iter = @ + 1,
                                    ![i].yielded = Append(@, s.prev_items[s.iter + 1])]
          ELSE IF s.lagged
          THEN subs' = [subs EXCEPT ![i].ended = TRUE]
          ELSE IF s.recv < Len(s.live)
          THEN subs' = [subs EXCEPT ![i].recv = @ + 1,
                                    ![i].yielded = Append(@, s.live[s.recv + 1])]
          ELSE /\ s.chan \notin hub_channels
               /\ subs' = [subs EXCEPT ![i].ended = TRUE]
    /\ UNCHANGED <<max_key_updates, closed, trees, counters, queue_meta, next_chan,
                   ret, ops, sent, pc, local>>

StreamNext == Next \/ \E i \in 1..MaxSubs : poll(i)

SpecStream == Init /\ [][StreamNext]_vars

\* ----------------------------------------- send_to_queue, step by step
\* Concurrent producers: every store call and every DashMap call of
\* send_to_queue is one atomic step; the rest of the handler is local.
ConcCallerSequences == {NoneSeq}

Goto(p, label, loc) ==
    /\ pc' = [pc EXCEPT ![p] = label]
    /\ local' = [local EXCEPT ![p] = loc]

\* a Ref of another task into the queue_meta entry / the keys entry
OtherHoldsQueueRef(p, queue_name) ==
    \E o \in Tasks \ {p} : local[o].qref /\ local[o].queue = queue_name

OtherHoldsKeyRef(p, queue_name, id) ==
    \E o \in Tasks \ {p} :
        local[o].kref /\ local[o].queue = queue_name /\ local[o].value.id = id

\* the call returns with locals l: the task is idle again (its Refs are
\* dropped) and remembers the result
Finish(p, l, accepted, sequence, error) ==
    Goto(p, "idle",
         IdleLocal(Append(l.done,
                          [queue |-> l.queue, id |-> l.value.id,
                           body |-> l.value.body, supplied |-> l.supplied,
                           accepted |-> accepted, sequence |-> sequence,
                           error |-> error, inserted |-> l.inserted,
                           sends |-> l.sends, scope |-> l.scope,
                           request |-> l.request, before |-> l.before,
                           sub |-> l.sub])))

Return(p, accepted, sequence) == Finish(p, local[p], accepted, sequence, FALSE)

\* where the caller of get_queue_broadcast / get_key_broadcast goes on:
\* send_to_queue sends, subscribe_queue_by_id looks the key up, and both
\* subscribes call Sender::subscribe
after_queue_get(l) ==
    IF l.scope = "none" THEN "queue_send"
    ELSE IF l.scope = "key" THEN "key_contains" ELSE "subscribe"

after_key_get(l) == IF l.scope = "none" THEN "key_send" ELSE "subscribe"

p_call(p, queue_name, in_value) ==
    /\ pc[p] = "idle"
    /\ Len(local[p].done) < MaxRounds
    /\ Goto(p, "check", [local[p] EXCEPT !.queue = queue_name, !.value = in_value,
                                        !.supplied = in_value.sequence # NoneSeq])
    /\ sent' = sent + 1
    /\ UNCHANGED <<max_key_updates, closed, trees, counters, queue_meta, next_chan,
                   subs, ret, ops>>

p_check_tree_exists(p) ==
    /\ pc[p] = "check"
    /\ IF ~check_tree_exists(local[p].queue)
       THEN Return(p, FALSE, NoneSeq)
       ELSE Goto(p, "sequence", local[p])
    /\ UNCHANGED <<max_key_updates, closed, trees, counters, queue_meta, next_chan,
                   subs, ret, ops, sent>>

p_sequence(p) ==
    /\ pc[p] = "sequence"
    /\ LET l == local[p]
           g == sequence_of(counters, l.queue, l.value)
       IN /\ counters' = g.counters
          /\ Goto(p, IF persists(max_key_updates) THEN "open_tree"
                     ELSE "queue_contains",
                  [l EXCEPT !.sequence = g.id, !.value.sequence = g.id])
    /\ UNCHANGED <<max_key_updates, closed, trees, queue_meta, next_chan, subs, ret,
                   ops, sent>>

p_open_tree(p) ==
    /\ pc[p] = "open_tree"
    /\ trees' = open_tree(trees, local[p].queue)
    /\ Goto(p, "insert", local[p])
    /\ UNCHANGED <<max_key_updates, closed, counters, queue_meta, next_chan, subs, ret,
                   ops, sent>>

p_insert(p) ==
    /\ pc[p] = "insert"
    /\ local[p].queue \in DOMAIN trees
    /\ LET l == local[p] IN
          trees' = [trees EXCEPT ![l.queue] =
                       tree_insert(@, get_id(l.value.id, l.sequence),
                                   to_vec(l.value))]
    /\ Goto(p, IF max_key_updates # NoneUsize THEN "scan" ELSE "queue_contains",
            [local[p] EXCEPT !.inserted = TRUE])
    /\ UNCHANGED <<max_key_updates, closed, counters, queue_meta, next_chan, subs, ret,
                   ops, sent>>

\* rmp_serde::to_vec or tree.insert returns Err: `?` leaves the handler
p_insert_fails(p) ==
    /\ pc[p] = "insert"
    /\ Finish(p, local[p], FALSE, NoneSeq, TRUE)
    /\ UNCHANGED <<max_key_updates, closed, trees, counters, queue_meta, next_chan,
                   subs, ret, ops, sent>>

p_scan(p) ==
    /\ pc[p] = "scan"
    /\ local[p].queue \in DOMAIN trees
    /\ LET l == local[p]
           batch == Range(Skip(Reverse(scan_prefix(trees[l.queue], l.value.id)),
                               trim_skip(max_key_updates)))
       IN Goto(p, "apply_batch", [l EXCEPT !.batch = batch])
    /\ UNCHANGED <<max_key_updates, closed, trees, counters, queue_meta, next_chan,
                   subs, ret, ops, sent>>

p_apply_batch(p) ==
    /\ pc[p] = "apply_batch"
    /\ local[p].queue \in DOMAIN trees
    /\ trees' = [trees EXCEPT ![local[p].queue] = apply_batch(@, local[p].batch)]
    /\ Goto(p, "queue_contains", [local[p] EXCEPT !.batch = {}])
    /\ UNCHANGED <<max_key_updates, closed, counters, queue_meta, next_chan, subs, ret,
                   ops, sent>>

p_queue_contains(p) ==
    /\ pc[p] = "queue_contains"
    /\ IF local[p].queue \in DOMAIN queue_meta
       THEN Goto(p, "queue_get", [local[p] EXCEPT !.found = TRUE])
       ELSE Goto(p, "queue_insert", [local[p] EXCEPT !.found = FALSE])
    /\ UNCHANGED <<max_key_updates, closed, trees, counters, queue_meta, next_chan,
                   subs, ret, ops, sent>>

p_queue_insert(p) ==
    /\ pc[p] = "queue_insert"
    /\ ~OtherHoldsQueueRef(p, local[p].queue)
    /\ queue_meta' = Put(queue_meta, local[p].queue,
                         [sender |-> next_chan, keys |-> EmptyFn])
    /\ next_chan' = next_chan + 1
    /\ Goto(p, "queue_get", local[p])
    /\ UNCHANGED <<max_key_updates, closed, trees, counters, subs, ret, ops, sent>>

p_queue_get(p) ==
    /\ pc[p] = "queue_get"
    /\ IF local[p].queue \in DOMAIN queue_meta
       THEN Goto(p, after_queue_get(local[p]),
                 [local[p] EXCEPT !.qref = TRUE,
                                  !.qchan = queue_meta[local[p].queue].sender])
       ELSE Goto(p, "panic", local[p])
    /\ UNCHANGED <<max_key_updates, closed, trees, counters, queue_meta, next_chan,
                   subs, ret, ops, sent>>

p_queue_send(p) ==
    /\ pc[p] = "queue_send"
    /\ subs' = send(subs, local[p].qchan, local[p].value)
    /\ Goto(p, "key_contains", [local[p] EXCEPT !.sends = @ + 1])
    /\ UNCHANGED <<max_key_updates, closed, trees, counters, queue_meta, next_chan,
                   ret, ops, sent>>

p_key_contains(p) ==
    /\ pc[p] = "key_contains"
    /\ IF local[p].value.id \in DOMAIN queue_meta[local[p].queue].keys
       THEN Goto(p, "key_get", [local[p] EXCEPT !.found = TRUE])
       ELSE Goto(p, "key_insert", [local[p] EXCEPT !.found = FALSE])
    /\ UNCHANGED <<max_key_updates, closed, trees, counters, queue_meta, next_chan,
                   subs, ret, ops, sent>>

p_key_insert(p) ==
    /\ pc[p] = "key_insert"
    /\ ~OtherHoldsKeyRef(p, local[p].queue, local[p].value.id)
    /\ queue_meta' = [queue_meta EXCEPT ![local[p].queue].keys =
                         Put(@, local[p].value.id, [sender |-> next_chan])]
    /\ next_chan' = next_chan + 1
    /\ Goto(p, "key_get", local[p])
    /\ UNCHANGED <<max_key_updates, closed, trees, counters, subs, ret, ops, sent>>

p_key_get(p) ==
    /\ pc[p] = "key_get"
    /\ LET l == local[p] IN
          IF l.value.id \in DOMAIN queue_meta[l.queue].keys
          THEN Goto(p, after_key_get(l),
                    [l EXCEPT !.kref = TRUE,
                              !.kchan = queue_meta[l.queue].keys[l.value.id].sender])
          ELSE Goto(p, "panic", l)
    /\ UNCHANGED <<max_key_updates, closed, trees, counters, queue_meta, next_chan,
                   subs, ret, ops, sent>>

p_key_send(p) ==
    /\ pc[p] = "key_send"
    /\ subs' = record_publish(send(subs, local[p].kchan, local[p].value),
                              local[p].queue, local[p].value,
                              local[p].supplied)
    /\ Finish(p, [local[p] EXCEPT !.sends = @ + 1], TRUE, local[p].sequence, FALSE)
    /\ UNCHANGED <<max_key_updates, closed, trees, counters, queue_meta, next_chan,
                   ret, ops, sent>>

ProducerNext ==
    \/ \E p \in Procs, n \in QueueNames, id \in Keys, s \in ConcCallerSequences :
          p_call(p, n, Event(id, s, sent + 1))
    \/ \E p \in Procs : p_check_tree_exists(p)
    \/ \E p \in Procs : p_sequence(p)
    \/ \E p \in Procs : p_open_tree(p)
    \/ \E p \in Procs : p_insert(p)
    \/ \E p \in Procs : p_scan(p)
    \/ \E p \in Procs : p_apply_batch(p)
    \/ \E p \in Procs : p_queue_contains(p)
    \/ \E p \in Procs : p_queue_insert(p)
    \/ \E p \in Procs : p_queue_get(p)
    \/ \E p \in Procs : p_queue_send(p)
    \/ \E p \in Procs : p_key_contains(p)
    \/ \E p \in Procs : p_key_insert(p)
    \/ \E p \in Procs : p_key_get(p)
    \/ \E p \in Procs : p_key_send(p)

SpecProducers == Init /\ [][ProducerNext]_vars

\* the producers with a store or a serializer that may return Err
FaultNext == ProducerNext \/ \E p \in Procs : p_insert_fails(p)

SpecFaults == Init /\ [][FaultNext]_vars

\* ------------------------------------------------ subscribe, step by step
\* A subscriber task running next to the producers: every store call and every
\* DashMap call of subscribe_queue_by_id / subscribe_queue is one atomic step.
ConcRequests ==
    {[kind |-> "None", s |-> 0], [kind |-> "First", s |-> 0]}

\* history: the bodies of the publishes that have returned (true, _)
published ==
    UNION {{local[p].done[i].body :
               i \in {j \in DOMAIN local[p].done : local[p].done[j].accepted}} :
           p \in Procs}

s_call(t, queue_name, scope, id, sequence) ==
    /\ pc[t] = "idle"
    /\ Len(local[t].done) < MaxRounds
    /\ Len(subs) < MaxSubs
    /\ Goto(t, "s_check",
            [local[t] EXCEPT !.queue = queue_name, !.scope = scope,
                             !.value = [NoEvent EXCEPT !.id = id],
                             !.request = sequence, !.before = published])
    /\ UNCHANGED <<max_key_updates, closed, trees, counters, queue_meta, next_chan,
                   subs, ret, ops, sent>>

s_check_tree_exists(t) ==
    /\ pc[t] = "s_check"
    /\ IF ~check_tree_exists(local[t].queue)
       THEN Return(t, FALSE, NoneSeq)
       ELSE Goto(t, "s_open_tree", local[t])
    /\ UNCHANGED <<max_key_updates, closed, trees, counters, queue_meta, next_chan,
                   subs, ret, ops, sent>>

s_open_tree(t) ==
    /\ pc[t] = "s_open_tree"
    /\ trees' = open_tree(trees, local[t].queue)
    /\ Goto(t, "s_scan", local[t])
    /\ UNCHANGED <<max_key_updates, closed, counters, queue_meta, next_chan, subs,
                   ret, ops, sent>>

\* get_prev_items / get_prev_all_items, set_last and prev_len
s_scan(t) ==
    /\ pc[t] = "s_scan"
    /\ local[t].queue \in DOMAIN trees
    /\ LET l == local[t]
           tree == trees[l.queue]
           prev_items ==
               IF l.request.kind = "None" THEN <<>>
               ELSE IF l.scope = "key"
               THEN set_last(get_prev_items(tree, l.value.id, l.request))
               ELSE set_last(get_prev_all_items(tree, l.request))
           prev_len == IF l.request.kind = "None" THEN NoneUsize
                       ELSE Len(prev_items)
       IN Goto(t, "queue_contains",
               [l EXCEPT !.prev_items = prev_items, !.prev_len = prev_len])
    /\ UNCHANGED <<max_key_updates, closed, trees, counters, queue_meta, next_chan,
                   subs, ret, ops, sent>>

\* Sender::subscribe on the entry the task holds a Ref to, and the return
s_subscribe(t) ==
    /\ pc[t] = "subscribe"
    /\ LET l == local[t]
           chan == IF l.scope = "key" THEN l.kchan ELSE l.qchan
       IN /\ subs' = Append(subs, Subscription(l.queue, l.scope, l.value.id, chan,
                                               l.prev_items, l.prev_len))
          /\ Finish(t, [l EXCEPT !.sub = Len(subs) + 1], TRUE, NoneSeq, FALSE)
    /\ UNCHANGED <<max_key_updates, closed, trees, counters, queue_meta, next_chan,
                   ret, ops, sent>>

ConcNext ==
    \/ ProducerNext
    \/ \E t \in Subscribers, n \in QueueNames, id \in Keys, r \in ConcRequests :
          s_call(t, n, "key", id, r)
    \/ \E t \in Subscribers, n \in QueueNames, r \in ConcRequests :
          s_call(t, n, "queue", <<>>, r)
    \/ \E t \in Subscribers : s_check_tree_exists(t)
    \/ \E t \in Subscribers : s_open_tree(t)
    \/ \E t \in Subscribers : s_scan(t)
    \/ \E t \in Subscribers : p_queue_contains(t)
    \/ \E t \in Subscribers : p_queue_insert(t)
    \/ \E t \in Subscribers : p_queue_get(t)
    \/ \E t \in Subscribers : p_key_contains(t)
    \/ \E t \in Subscribers : p_key_insert(t)
    \/ \E t \in Subscribers : p_key_get(t)
    \/ \E t \in Subscribers : s_subscribe(t)

\* Queue::new with max_key_updates None or Some(MaxM) and the queues in
\* config.default
ConcInit ==
    /\ Init
    /\ max_key_updates \in {NoneUsize, MaxM}
    /\ DOMAIN trees = QueueNames

SpecConc == ConcInit /\ [][ConcNext]_vars

\* ------------------------------------- close and delete next to the producers
\* DashMap::remove takes the write lock of the shard: it waits for the Refs
\* other tasks hold into the entry. The rest of the two handlers is run in one
\* step.
r_close_queue(queue_name) ==
    /\ ~\E t \in Tasks : local[t].qref /\ local[t].queue = queue_name
    /\ close_queue(queue_name)

r_delete_queue(queue_name, id) ==
    /\ ~\E t \in Tasks : /\ local[t].kref /\ local[t].queue = queue_name
                          /\ local[t].value.id = id
    /\ delete_queue(queue_name, id)

RaceNext ==
    \/ ProducerNext
    \/ \E n \in QueueNames : r_close_queue(n)
    \/ \E n \in QueueNames, id \in Keys : r_delete_queue(n, id)

SpecRace == ConcInit /\ [][RaceNext]_vars

\* ------------------------------------------------- what the claims speak of
tree_of(queue_name) ==
    IF queue_name \in DOMAIN trees THEN trees[queue_name] ELSE EmptyTree

\* the events persisted in a queue's tree, and those of one key
persisted(queue_name) ==
    {from_slice(tree_of(queue_name)[k]) : k \in DOMAIN tree_of(queue_name)}

persisted_for(queue_name, id) == {e \in persisted(queue_name) : e.id = id}

\* the storage keys under the prefix bytes(id)
prefix_keys(queue_name, id) ==
    {k \in DOMAIN tree_of(queue_name) : StartsWith(k, id)}

\* the last value the allocator issued for (queue, key), 0 before the first
issued(queue_name, id) ==
    IF counter_key(queue_name, id) \in DOMAIN counters
    THEN from_be_bytes(counters[counter_key(queue_name, id)]) ELSE 0

\* an event without its terminal flag
payload(e) == <<e.id, e.sequence, e.body>>

payloads(items) == [i \in DOMAIN items |-> payload(items[i])]

RECURSIVE by_sequence(_)
by_sequence(S) ==
    IF S = {} THEN <<>>
    ELSE LET m == CHOOSE x \in S : \A y \in S : x.sequence <= y.sequence
         IN <<m>> \o by_sequence(S \ {m})

\* the event send_to_queue stored and broadcast in the last call
published_event == [ret.value EXCEPT !.sequence = ret.sequence]

first_replay(queue_name, id) ==
    get_prev_items(tree_of(queue_name), id, [kind |-> "First", s |-> 0])

\* C1: with max_key_updates = M > 0, N sequential allocator-sequenced publishes
\* to one (queue, key) leave exactly the min(N, M) most recent sequences under
\* the key's prefix.  Stated as its inductive step: if the prefix holds the
\* min(N, M) most recent of the N sequences issued so far, then after one more
\* such publish it holds the min(N + 1, M) most recent of N + 1.
most_recent(id, n, m) == {get_id(id, s) : s \in Max(1, n - m + 1)..n}

C1_RetentionKeepsMostRecent ==
    [][\A n \in QueueNames, id \in Keys :
          (/\ ret'.op = "send_to_queue" /\ ret'.accepted
           /\ ret'.queue = n /\ ret'.id = id
           /\ ret'.value.sequence = NoneSeq
           /\ max_key_updates > 0
           /\ prefix_keys(n, id)
                = most_recent(id, issued(n, id), max_key_updates))
          => (/\ issued(n, id)' = issued(n, id) + 1
              /\ prefix_keys(n, id)'
                   = most_recent(id, issued(n, id) + 1, max_key_updates))]_vars

\* C3: delete_queue(Q, K) empties the First replay of K and leaves the persisted
\* events and the First replay of every other key, the queue-wide hub and the
\* other keys' hub entries as they were.
C3_DeleteLeavesOtherKeys ==
    [][\A n \in QueueNames, id \in Keys :
          (ret'.op = "delete_queue" /\ ret'.queue = n /\ ret'.id = id)
          => /\ first_replay(n, id)' = <<>>
             /\ \A o \in Keys \ {id} :
                   /\ persisted_for(n, o)' = persisted_for(n, o)
                   /\ first_replay(n, o)' = first_replay(n, o)
             /\ n \in DOMAIN queue_meta =>
                   /\ queue_meta'[n].sender = queue_meta[n].sender
                   /\ \A o \in (DOMAIN queue_meta[n].keys) \ {id} :
                         /\ o \in DOMAIN queue_meta'[n].keys
                         /\ queue_meta'[n].keys[o] = queue_meta[n].keys[o]]_vars

\* C4: whenever send_to_queue accepted an event E and max_key_updates is not 0,
\* the First replay of (Q, E.key) right after the call holds E with its sequence.
C4_RoundTrip ==
    (ret.op = "send_to_queue" /\ ret.accepted /\ max_key_updates # 0)
    => \E i \in DOMAIN first_replay(ret.queue, ret.id) :
          payload(first_replay(ret.queue, ret.id)[i]) = payload(published_event)

\* C7: no handler other than create_queue brings a tree into the registry.
C7_OnlyCreateQueueCreates ==
    [][\A n \in QueueNames :
          (n \notin tree_names /\ n \in tree_names') => ret'.op = "create_queue"]_vars

\* C10: subscribe_queue_by_id(Q, k, Id(s)) preloads exactly the persisted events
\* of key k with sequence >= s (up to and including u64::MAX), in sequence order,
\* and attaches a live receiver.
C10_IdReplayExact ==
    (ret.op = "subscribe_queue_by_id" /\ ret.stream /\ ret.request.kind = "Id")
    => /\ payloads(ret.prev_items)
            = payloads(by_sequence({e \in persisted_for(ret.queue, ret.id) :
                                       e.sequence >= ret.request.s}))
       /\ ret.preloaded_count = Len(ret.prev_items)
       /\ subs # <<>>
       /\ subs[Len(subs)].chan = queue_meta[ret.queue].keys[ret.id].sender

\* C2: concurrent producers of one (queue, key), no caller-supplied sequence:
\* the sequences issued are pairwise distinct under every interleaving, and with
\* max_key_updates absent, once no publish to the key is in flight, the P accepted
\* publishes are persisted as exactly P events with the sequences 1..P.
issued_to(queue_name, id) ==
    {<<p, i>> \in Procs \X (1..MaxRounds) :
        /\ i <= Len(local[p].done)
        /\ local[p].done[i].queue = queue_name /\ local[p].done[i].id = id
        /\ local[p].done[i].accepted /\ ~local[p].done[i].supplied}

in_flight(queue_name, id) ==
    {p \in Procs : /\ pc[p] # "idle" /\ local[p].queue = queue_name
                   /\ local[p].value.id = id}

C2_ConcurrentSequences ==
    \A n \in QueueNames, id \in Keys :
       LET done == issued_to(n, id)
           held == {p \in in_flight(n, id) : local[p].sequence # NoneSeq}
           seqs == {local[x[1]].done[x[2]].sequence : x \in done}
                   \cup {local[p].sequence : p \in held}
       IN /\ Cardinality(seqs) = Cardinality(done) + Cardinality(held)
          /\ (max_key_updates = NoneUsize /\ in_flight(n, id) = {})
             => /\ Cardinality(persisted_for(n, id)) = Cardinality(done)
                /\ {e.sequence : e \in persisted_for(n, id)}
                      = 1..Cardinality(done)

C2_Witness ==
    /\ max_key_updates = NoneUsize
    /\ \E n \in QueueNames, id \in Keys :
          /\ in_flight(n, id) = {}
          /\ \A p \in Procs : <<p, 1>> \in issued_to(n, id)
          /\ {e.sequence : e \in persisted_for(n, id)} = 1..Cardinality(Procs)

\* C5: a subscriber made before a run of publishes gets every one of them on its
\* live receiver, in publish order, and the allocator-issued sequences of a key
\* arrive increasing, as long as the receiver did not lag and no delete_queue of
\* its key / close_queue of its queue tore its hub entry down.
C5_LiveDelivery ==
    \A i \in DOMAIN subs :
       (~subs[i].torn_down /\ ~subs[i].lagged)
       => /\ subs[i].live = [j \in DOMAIN subs[i].expect |-> subs[i].expect[j].value]
          /\ \A j, k \in DOMAIN subs[i].live :
                (/\ j < k
                 /\ subs[i].live[j].id = subs[i].live[k].id
                 /\ ~subs[i].expect[j].supplied /\ ~subs[i].expect[k].supplied)
                => subs[i].live[j].sequence < subs[i].live[k].sequence

C5_Witness ==
    \E i \in DOMAIN subs :
       /\ subs[i].scope = "key" /\ ~subs[i].torn_down
       /\ Len(subs[i].live) = 2
       /\ subs[i].live[1].sequence = 1 /\ subs[i].live[2].sequence = 2

\* C6: send_to_queue / subscribe_queue / subscribe_queue_by_id on a queue name
\* whose tree is not in the registry return (false, None) / an empty subscription
\* and change nothing: no tree, no counter, no hub entry, no broadcast.
C6_MissingQueueNoEffect ==
    [][(/\ ret'.op \in {"send_to_queue", "subscribe_queue",
                       "subscribe_queue_by_id"}
        /\ ret'.queue \notin tree_names)
       => /\ ~ret'.accepted /\ ret'.sequence = NoneSeq
          /\ ~ret'.stream /\ ret'.preloaded_count = NoneUsize
          /\ UNCHANGED <<trees, counters, queue_meta, next_chan, subs>>]_vars

C6_Witness ==
    /\ ret.op = "send_to_queue" /\ ~ret.accepted /\ ret.queue \notin tree_names
    /\ ret.sequence = NoneSeq
    /\ queue_meta = EmptyFn /\ counters = EmptyFn

\* C8: with max_key_updates = Some(0) every send_to_queue to an existing queue
\* returns (true, Some(seq)), seq being the counter's value when the caller gave
\* none (1 for the first publish); no event is persisted, so every replay is
\* empty; and the subscribers made before the publish get the event live.
C8_ZeroRetention ==
    max_key_updates = 0 =>
       /\ \A n \in tree_names : trees[n] = EmptyTree
       /\ \A i \in DOMAIN subs :
             /\ subs[i].prev_items = <<>>
             /\ subs[i].preloaded_count \in {NoneUsize, 0}
             /\ (~subs[i].torn_down /\ ~subs[i].lagged)
                => payloads(subs[i].live)
                      = [j \in DOMAIN subs[i].expect |->
                            payload(subs[i].expect[j].value)]
       /\ (ret.op = "send_to_queue" /\ ret.queue \in tree_names)
          => /\ ret.accepted /\ ret.sequence # NoneSeq
             /\ ret.value.sequence = NoneSeq
                => /\ ret.sequence = issued(ret.queue, ret.id)
                   /\ sent = 1 => ret.sequence = 1
             /\ ret.value.sequence # NoneSeq
                => ret.sequence = ret.value.sequence

C8_Witness ==
    /\ max_key_updates = 0
    /\ ret.op = "subscribe_queue_by_id" /\ ret.request.kind = "First"
    /\ ret.stream /\ ret.preloaded_count = 0
    /\ Len(subs) = 2 /\ subs[1].id = ret.id /\ subs[1].scope = "key"
    /\ Len(subs[1].live) = 1 /\ subs[1].live[1].sequence = 1

\* C9: with max_key_updates = M > 0, after every completed send_to_queue at most
\* M storage keys carry the prefix bytes(event.key).
C9_RetentionCap ==
    (max_key_updates > 0 /\ ret.op = "send_to_queue" /\ ret.accepted)
    => Cardinality(prefix_keys(ret.queue, ret.id)) <= max_key_updates

C9_Witness ==
    /\ max_key_updates = 2
    /\ ret.op = "send_to_queue" /\ ret.accepted /\ ret.sequence = 3
    /\ issued(ret.queue, ret.id) = 3
    /\ Cardinality(prefix_keys(ret.queue, ret.id)) = 1

\* C11: subscribe_queue(Q, Last) preloads exactly one event per key that has
\* persisted events in the tree, and for each key it is the persisted event with
\* the highest sequence.
C11_QueueLastReplay ==
    (ret.op = "subscribe_queue" /\ ret.stream /\ ret.request.kind = "Last")
    => LET ids == {e.id : e \in persisted(ret.queue)}
       IN /\ Len(ret.prev_items) = Cardinality(ids)
          /\ ret.preloaded_count = Cardinality(ids)
          /\ \A id \in ids :
                \E i \in DOMAIN ret.prev_items :
                   /\ ret.prev_items[i].id = id
                   /\ \E e \in persisted_for(ret.queue, id) :
                         /\ payload(e) = payload(ret.prev_items[i])
                         /\ \A o \in persisted_for(ret.queue, id) :
                               o.sequence <= e.sequence

C11_Witness ==
    /\ ret.op = "subscribe_queue" /\ ret.stream /\ ret.request.kind = "Last"
    /\ Len(ret.prev_items) = 1 /\ ret.prev_items[1].sequence = 2
    /\ Cardinality(persisted(ret.queue)) = 2

\* C12: create_queue or send_to_queue with a queue name in the reserved counter
\* namespace ("id_"...) fails with SystemQueueName, creates no tree and writes
\* nothing.
C12_ReservedNameRefused ==
    [][(/\ ret'.op \in {"create_queue", "send_to_queue"}
        /\ StartsWith(ret'.queue, IdPrefix))
       => /\ ret'.error = "SystemQueueName"
          /\ UNCHANGED <<trees, counters, queue_meta>>]_vars

\* C18: a publish with a caller-supplied sequence skips the allocator: that
\* sequence is returned, is the one the event is stored and broadcast under, and
\* the counters are left as they were.
C18_CallerSequenceVerbatim ==
    [][\A n \in QueueNames, id \in Keys :
          (/\ ret'.op = "send_to_queue" /\ ret'.accepted
           /\ ret'.queue = n /\ ret'.id = id
           /\ ret'.value.sequence # NoneSeq)
          => /\ ret'.sequence = ret'.value.sequence
             /\ counters' = counters
             /\ issued(n, id)' = issued(n, id)
             /\ (DOMAIN tree_of(n)') \ (DOMAIN tree_of(n))
                   \subseteq {get_id(id, ret'.value.sequence)}
             /\ max_key_updates = NoneUsize
                => /\ get_id(id, ret'.value.sequence) \in DOMAIN tree_of(n)'
                   /\ payload(from_slice(
                         tree_of(n)'[get_id(id, ret'.value.sequence)]))
                        = <<id, ret'.value.sequence, ret'.value.body>>
             /\ \A i \in DOMAIN subs :
                   (/\ ~subs[i].torn_down /\ subs[i].queue = n
                    /\ (subs[i].scope = "queue" \/ subs[i].id = id))
                   => /\ Len(subs'[i].live) = Len(subs[i].live) + 1
                      /\ payload(subs'[i].live[Len(subs'[i].live)])
                           = <<id, ret'.value.sequence, ret'.value.body>>]_vars

C18_Witness ==
    /\ ret.op = "send_to_queue" /\ ret.accepted /\ ret.queue \in QueueNames
    /\ ret.value.sequence = 2 /\ ret.sequence = 2
    /\ issued(ret.queue, ret.id) = 1
    /\ get_id(ret.id, 2) \in DOMAIN tree_of(ret.queue)

\* C13: a subscription stream yields the preloaded events in the order of the
\* historical list and only then live events; the terminal flag is on the final
\* historical element and on nothing else; preloaded_count is the number of
\* historical events, and is absent exactly when no replay mode was asked for.
C13_ReplayThenLive ==
    /\ \A i \in DOMAIN subs :
          LET s == subs[i] IN
             /\ s.yielded = SubSeq(s.prev_items, 1, s.iter) \o SubSeq(s.live, 1, s.recv)
             /\ s.recv > 0 => s.iter = Len(s.prev_items)
             /\ \A j \in DOMAIN s.yielded :
                   s.yielded[j].last <=> (j = Len(s.prev_items))
             /\ \A j \in DOMAIN s.prev_items :
                   s.prev_items[j].last <=> (j = Len(s.prev_items))
             /\ s.preloaded_count \in {NoneUsize, Len(s.prev_items)}
             /\ s.preloaded_count = NoneUsize => s.prev_items = <<>>
    /\ (ret.op \in {"subscribe_queue", "subscribe_queue_by_id"} /\ ret.stream)
       => /\ ret.preloaded_count = NoneUsize <=> ret.request.kind = "None"
          /\ subs[Len(subs)].preloaded_count = ret.preloaded_count
          /\ subs[Len(subs)].prev_items = ret.prev_items

C13_Witness ==
    \E i \in DOMAIN subs :
       /\ subs[i].preloaded_count = 1 /\ Len(subs[i].yielded) = 2
       /\ subs[i].yielded[1].last /\ ~subs[i].yielded[2].last
       /\ subs[i].iter = 1 /\ subs[i].recv = 1

\* C19: close_queue(name) removes the hub of name and drops its tree, returning
\* true iff the tree existed; the Senders of the subscriptions of that queue are
\* gone (their streams end once drained), and until create_queue(name) is called
\* again the tree stays out of the registry, so that send_to_queue returns
\* (false, None) and subscribe returns an empty subscription.
C19_ClosedUntilCreated ==
    [][/\ \A n \in QueueNames :
             (ret'.op = "close_queue" /\ ret'.queue = n)
             => /\ ret'.accepted <=> n \in tree_names
                /\ n \notin tree_names' /\ n \notin DOMAIN queue_meta'
                /\ \A i \in DOMAIN subs' :
                      subs'[i].queue = n => subs'[i].chan \notin hub_channels'
       /\ \A n \in closed' :
             /\ n \notin tree_names'
             /\ (ret'.queue = n /\ ret'.op \in {"send_to_queue", "subscribe_queue",
                                                "subscribe_queue_by_id"})
                => ~ret'.accepted /\ ~ret'.stream]_vars

\* C14: when max_key_updates is not 0, a task sends its event on the queue-wide
\* and on the per-key channel only after its own tree.insert has committed (the
\* entry was in the tree when insert returned); a publish whose insert or
\* serialization failed returns an error having sent on neither channel.
C14_BroadcastAfterInsert ==
    [][\A p \in Procs :
          /\ (~local[p].inserted /\ local'[p].inserted)
             => get_id(local[p].value.id, local[p].sequence)
                   \in DOMAIN trees'[local[p].queue]
          /\ (pc[p] \in {"queue_send", "key_send"} /\ pc'[p] # pc[p]
              /\ max_key_updates # 0)
             => local[p].inserted
          /\ \A i \in DOMAIN local'[p].done :
                LET d == local'[p].done[i] IN
                   /\ d.error => d.sends = 0 /\ ~d.accepted /\ ~d.inserted
                   /\ d.accepted => d.sends = 2
                   /\ (d.sends > 0 /\ max_key_updates # 0) => d.inserted]_vars

C14_Witness ==
    /\ max_key_updates # 0
    /\ \E p, o \in Procs :
          /\ Len(local[p].done) > 0 /\ local[p].done[1].error
          /\ Len(local[o].done) > 0 /\ local[o].done[1].sends = 2
          /\ local[o].done[1].inserted

\* C15: with concurrent producers publishing to one (queue, key) without
\* caller-supplied sequences, the events arrive on the per-key channel in the
\* order of their sequences: what a per-key subscriber has received is strictly
\* increasing in the sequence.
C15_KeyChannelInCounterOrder ==
    \A i \in DOMAIN subs :
       subs[i].scope = "key"
       => \A j, k \in DOMAIN subs[i].live :
             (j < k /\ subs[i].live[j].id = subs[i].live[k].id)
             => subs[i].live[j].sequence < subs[i].live[k].sequence

\* C16: concurrent first accesses create one hub entry per queue and per key
\* and every caller uses it: no channel is created beyond those in the hub, and
\* the receiver of every subscription is on the channel the hub holds for its
\* queue or key, the one later publishes are sent on.
C16_SingleHubEntry ==
    /\ next_chan - 1 = Cardinality(hub_channels)
    /\ \A i \in DOMAIN subs :
          LET s == subs[i] IN
             /\ s.queue \in DOMAIN queue_meta
             /\ s.scope = "queue" => queue_meta[s.queue].sender = s.chan
             /\ s.scope = "key"
                => /\ s.id \in DOMAIN queue_meta[s.queue].keys
                   /\ queue_meta[s.queue].keys[s.id].sender = s.chan

\* C17: (with max_key_updates None, nothing being trimmed) a subscription made
\* with a First replay holds, in its preload or among its live messages, every
\* event of its scope whose publish returned after the subscribe call began.
C17_NoGapBetweenReplayAndLive ==
    max_key_updates = NoneUsize
    => \A t \in Subscribers :
          \A i \in DOMAIN local[t].done :
             LET d == local[t].done[i]
                 got == {subs[d.sub].prev_items[j].body :
                            j \in DOMAIN subs[d.sub].prev_items}
                        \cup {subs[d.sub].live[j].body :
                                 j \in DOMAIN subs[d.sub].live}
             IN (d.accepted /\ d.request.kind = "First")
                => \A p \in Procs :
                      \A j \in DOMAIN local[p].done :
                         LET e == local[p].done[j] IN
                            (/\ e.accepted /\ e.queue = d.queue
                             /\ d.scope = "key" => e.id = d.id
                             /\ e.body \notin d.before)
                            => e.body \in got

\* C20: no task ever finds the entry it has just checked or inserted missing at
\* the get of get_queue_broadcast / get_key_broadcast: neither expect() panics.
C20_NoDataRacePanic == \A t \in Tasks : pc[t] # "panic"

====
